---- MODULE Spec2Model ----
(***************************************************************************)
(* Model of the invoice/estimate analyzer: the Streamlit page script       *)
(* (field_report_main.py) driving GeminiInspector (gemini_helper.py).      *)
(* One action is one script run triggered by one user interaction,         *)
(* including the st.rerun() it requests and the page-bottom PDF render.    *)
(***************************************************************************)
EXTENDS Integers, Sequences, FiniteSets, TLC

\* ------------------------------------------------------------------ bounds
MaxTurns == 5       \* longest turn history explored
MaxHandles == 3     \* chat handles the remote service hands out
MaxSmall == 3       \* prepare_image inputs: small edges 1..MaxSmall
MaxDelta == 2       \* prepare_image inputs: edges max_size-MaxDelta..max_size+MaxDelta
MaxK == 4           \* prepare_image inputs: edges k*Stride, k in 1..MaxK
Stride == 2118      \* 2118*2 = 4236, 2118*3 = 6354: edges around and above max_size

\* ------------------------------------------------------- program constants
max_size == 4096    \* prepare_image: longest edge sent to the remote model
pdf_max_width == 288    \* resize_image_for_pdf: max_width = 4*inch, inch = 72
pdf_max_height == 360   \* resize_image_for_pdf: max_height = 5*inch

\* ------------------------------------------------------------------ images
\* A PIL image is its mode and its size; None is NoImage.
NoImage == [mode |-> "None", w |-> 0, h |-> 0]

Img(mode, w, h) == [mode |-> mode, w |-> w, h |-> h]

Max2(a, b) == IF a > b THEN a ELSE b

IsPow2(n) == \E k \in 0..30 : n = 2^k

\* image.convert('RGB') when image.mode != 'RGB'
ConvertRGB(image) == IF image.mode # "RGB" THEN [image EXCEPT !.mode = "RGB"] ELSE image

\* int(dim * ratio) with ratio = max_size / m, both IEEE doubles.  The exact
\* quotient dim*max_size/m is truncated; when it is a whole number and the
\* ratio is not exactly representable (m is no power of two), the double
\* product can fall just below it and truncate to one less (4237 -> 4095).
\* ulp = 1 is that rounding; it never rounds up across a whole number.
ScaleDim(dim, m, ulp) ==
    LET q == (dim * max_size) \div m
        whole == (dim * max_size) % m = 0
    IN  IF whole /\ ~IsPow2(m) /\ ulp = 1 THEN q - 1 ELSE q

\* Image.resize(size): an image of the requested size in the same mode.
\* Pillow refuses a size with an edge below 1 (ValueError) in its current
\* releases; older ones return the empty image.  strict picks the release.
resize(image, w, h, strict) ==
    IF (w < 1 \/ h < 1) /\ strict
    THEN [kind |-> "raise", exc |-> "ValueError: height and width must be > 0", image |-> NoImage]
    ELSE [kind |-> "return", exc |-> "", image |-> [image EXCEPT !.w = w, !.h = h]]

\* faulty variant: scales by the shorter edge
prepare_image_min(image, ulpW, ulpH, strict) ==
    LET rgb == ConvertRGB(image)
        m == IF rgb.w < rgb.h THEN rgb.w ELSE rgb.h
    IN  IF Max2(rgb.w, rgb.h) > max_size
        THEN resize(rgb, ScaleDim(rgb.w, m, ulpW), ScaleDim(rgb.h, m, ulpH), strict)
        ELSE [kind |-> "return", exc |-> "", image |-> rgb]

\* GeminiInspector.prepare_image
prepare_image(image, ulpW, ulpH, strict) ==
    LET rgb == ConvertRGB(image)
        m == Max2(rgb.w, rgb.h)
    IN  IF m > max_size
        THEN resize(rgb, ScaleDim(rgb.w, m, ulpW), ScaleDim(rgb.h, m, ulpH), strict)
        ELSE [kind |-> "return", exc |-> "", image |-> rgb]

\* images the user can pick in the file uploader: one within max_size (its
\* height in the report is a whole quotient, where the rounding shows), one
\* that prepare_image converts and downscales, one so thin that its short
\* edge scales to 0
Uploads == { Img("RGB", 800, 600), Img("RGBA", 8192, 5000), Img("L", 1, 8192) }

\* -------------------------------------------------------------------- text
ResponseTexts == { "report", "answer" }
RemoteErrors == { "invalid API key" }
Prompts == { "What items were flagged?" }

\* what one remote send does: it answers with text, or it raises
Remotes == { [kind |-> "ok", val |-> t] : t \in ResponseTexts }
           \cup { [kind |-> "error", val |-> e] : e \in RemoteErrors }

\* the outcome of a Python call: it returns val, or it raises val
Return(v) == [kind |-> "return", val |-> v]
Raise(e) == [kind |-> "raise", val |-> e]

\* ------------------------------------------------------------ chat handles
\* st.session_state.chat is None or a ChatSession; a ChatSession is the
\* serial number under which the service created it.
None == 0

\* chat.send_message(...) followed by response.text, on the handle held
chat_send_message(chat, remote) ==
    IF chat = None
    THEN Raise("'NoneType' object has no attribute 'send_message'")
    ELSE IF remote.kind = "ok" THEN Return(remote.val) ELSE Raise(remote.val)

\* the inputs of one script run the code does not decide, env:
\*   ulpW, ulpH, up  double rounding (see ScaleDim, resize_image_for_pdf)
\*   strict           the Pillow release (see resize)
\*   remote           what the remote send does
\*   s1, s2           whether model.start_chat succeeds, first and second call

\* faulty variant: the handler is missing, an exception leaves analyze_image
analyze_image_uncaught(image, chat, env) ==
    LET p == prepare_image(image, env.ulpW, env.ulpH, env.strict)
    IN  IF p.kind = "raise" THEN Raise(p.exc) ELSE chat_send_message(chat, env.remote)

\* GeminiInspector.analyze_image: try: prepare, send, return response.text;
\* except Exception: return the error text
analyze_image(image, chat, env) ==
    LET p == prepare_image(image, env.ulpW, env.ulpH, env.strict)
        s == IF p.kind = "raise" THEN Raise(p.exc) ELSE chat_send_message(chat, env.remote)
    IN  IF s.kind = "raise"
        THEN Return("Error analyzing image: " \o s.val
                    \o "\nDetails: Please ensure your API key is valid and you're using a supported image format.")
        ELSE Return(s.val)

\* whether the remote send of analyze_image(image, chat, env) succeeded
AnalysisSent(image, chat, env) ==
    /\ prepare_image(image, env.ulpW, env.ulpH, env.strict).kind = "return"
    /\ chat_send_message(chat, env.remote).kind = "return"

\* GeminiInspector.send_message
send_message(chat, message, env) ==
    LET s == chat_send_message(chat, env.remote)
    IN  IF s.kind = "raise"
        THEN Return("Error sending message: " \o s.val)
        ELSE Return(s.val)

\* GeminiInspector.start_chat: a new handle (the n+1st the service created),
\* or None when model.start_chat raised
start_chat(n, started) == IF started THEN n + 1 ELSE None

\* ------------------------------------------------------------- PDF report
\* int(num / den) on doubles: the exact quotient truncated, or one less when
\* it is whole and the double result fell just below it (ulp = 1)
TruncQ(num, den, ulp) ==
    LET q == num \div den
    IN  IF num % den = 0 /\ ulp = 1 /\ q > 0 THEN q - 1 ELSE q

\* resize_image_for_pdf(image) with max_width = 4*inch, max_height = 5*inch.
\* aspect_ratio = w/h; new_height = max_width/aspect_ratio = max_width*h/w;
\* new_width = max_height*aspect_ratio = max_height*w/h.  At new_height
\* exactly max_height the double comparison goes either way (fp.up).
resize_image_for_pdf(image, fp, strict) ==
    LET rgb == ConvertRGB(image)
        w == rgb.w
        h == rgb.h
        tall == \/ pdf_max_width * h > pdf_max_height * w
                \/ (pdf_max_width * h = pdf_max_height * w /\ fp.up)
        byHeight == resize(rgb, TruncQ(pdf_max_height * w, h, fp.ulpW), pdf_max_height, strict)
        byWidth == resize(rgb, pdf_max_width, TruncQ(pdf_max_width * h, w, fp.ulpH), strict)
    IN  IF w > pdf_max_width \/ h > pdf_max_height
        THEN IF w > pdf_max_width
             THEN IF tall THEN byHeight ELSE byWidth
             ELSE byHeight
        ELSE [kind |-> "return", exc |-> "", image |-> rgb]

\* a reportlab flowable of the story: Paragraph(text, style), Spacer(1, height),
\* Image(image)
Paragraph(text, style) ==
    [kind |-> "Paragraph", text |-> text, style |-> style, height |-> 0, image |-> NoImage]
Spacer(height) ==
    [kind |-> "Spacer", text |-> "", style |-> "", height |-> height, image |-> NoImage]
RLImage(image) ==
    [kind |-> "Image", text |-> "", style |-> "CENTER", height |-> 0, image |-> image]

\* str.capitalize() on a role
capitalize(role) == IF role = "user" THEN "User" ELSE "Assistant"

\* the three flowables the loop appends for one message
MessageSection(msg) ==
    << Paragraph(capitalize(msg.role), "SectionHeader"),
       Paragraph(msg.content,
                 IF msg.role = "user" THEN "UserMessageStyle" ELSE "AssistantMessageStyle"),
       Spacer(12) >>

RECURSIVE MessageSections(_)
\* for msg in messages: ... appended in list order
MessageSections(messages) ==
    IF messages = << >> THEN << >>
    ELSE MessageSection(Head(messages)) \o MessageSections(Tail(messages))

\* faulty variant: the loop walks the messages newest first
generate_pdf_report_reversed(messages, current_image, fp, strict) ==
    LET Rev[i \in 0..Len(messages)] ==
            IF i = 0 THEN << >> ELSE << messages[i] >> \o Rev[i - 1]
        head == << Paragraph("Construction Invoice/Estimate Analysis Report", "ReportTitle"),
                   Spacer(18) >>
        r == resize_image_for_pdf(current_image, fp, strict)
    IN  IF current_image # NoImage /\ r.kind = "raise"
        THEN [kind |-> "raise", story |-> << >>, messages |-> messages,
              current_image |-> current_image]
        ELSE [kind |-> "return",
              story |-> head
                        \o (IF current_image # NoImage
                            THEN << RLImage(r.image), Spacer(18) >> ELSE << >>)
                        \o MessageSections(Rev[Len(messages)]),
              messages |-> messages, current_image |-> current_image]

\* generate_pdf_report(messages, current_image): the story handed to
\* doc.build, and the two arguments as the call leaves them.  It raises when
\* resize_image_for_pdf does.
generate_pdf_report(messages, current_image, fp, strict) ==
    LET head == << Paragraph("Construction Invoice/Estimate Analysis Report", "ReportTitle"),
                   Spacer(18) >>
        r == resize_image_for_pdf(current_image, fp, strict)
    IN  IF current_image # NoImage /\ r.kind = "raise"
        THEN [kind |-> "raise", story |-> << >>, messages |-> messages,
              current_image |-> current_image]
        ELSE [kind |-> "return",
              story |-> head
                        \o (IF current_image # NoImage
                            THEN << RLImage(r.image), Spacer(18) >> ELSE << >>)
                        \o MessageSections(messages),
              messages |-> messages, current_image |-> current_image]

\* no report was generated in the last script run
NoReport == [kind |-> "none", story |-> << >>]

\* ---------------------------------------------------------- session state
VARIABLES
    chat,            \* st.session_state.chat: None or a handle
    messages,        \* st.session_state.messages: sequence of [role, content]
    image_analyzed,  \* st.session_state.image_analyzed
    current_image,   \* st.session_state.current_image: NoImage or an image
    uploaded_file,   \* the file uploader's value: NoImage or an image
    nextHandle,      \* how many handles the remote service has created
    pdf,             \* the report the last script run built, or NoReport
    last,            \* the last interaction: what was asked, what came back
    calls,           \* analyze_image calls since the last Clear
    prepArg,         \* prepare_image on its own: the argument
    prepRet          \* prepare_image on its own: the outcome

vars == << chat, messages, image_analyzed, current_image, uploaded_file,
           nextHandle, pdf, last, calls, prepArg, prepRet >>

\* the four session_state entries as one value
Session == [ chat |-> chat, messages |-> messages,
             image_analyzed |-> image_analyzed, current_image |-> current_image ]

Turn(role, content) == [role |-> role, content |-> content]

\* "if st.session_state.chat is None: st.session_state.chat = inspector.start_chat()"
InitChat(s, n, started) ==
    IF s.chat = None
    THEN [s |-> [s EXCEPT !.chat = start_chat(n, started)],
          next |-> IF started THEN n + 1 ELSE n]
    ELSE [s |-> s, next |-> n]

\* faulty variant: Clear forgets to reset image_analyzed
ClearHandlerKeepsFlag(s, n, started) ==
    [s |-> [s EXCEPT !.messages = << >>,
                     !.chat = start_chat(n, started)],
     next |-> IF started THEN n + 1 ELSE n]

\* the Clear Chat History handler up to st.rerun()
ClearHandler(s, n, started) ==
    [s |-> [s EXCEPT !.messages = << >>,
                     !.chat = start_chat(n, started),
                     !.image_analyzed = FALSE],
     next |-> IF started THEN n + 1 ELSE n]

\* faulty variant: the Analyze button is offered whenever a file is uploaded
AnalyzeButtonAlways(uploaded, analyzed) == uploaded # NoImage

\* "if uploaded_file: ... if not st.session_state.image_analyzed:" - the
\* Analyze button is on the page
AnalyzeButtonShown(uploaded, analyzed) == uploaded # NoImage /\ ~analyzed

\* faulty variant: the prompt submission is stored as a user turn as well
AnalyzeStoreWithPrompt(s, image, report) ==
    [s EXCEPT !.current_image = image,
              !.messages = Append(Append(@, Turn("user", "prompt")), Turn("assistant", report)),
              !.image_analyzed = TRUE]

\* the Analyze handler after analyze_image returned report: lines 208, 214, 215
AnalyzeStore(s, image, report) ==
    [s EXCEPT !.current_image = image,
              !.messages = Append(@, Turn("assistant", report)),
              !.image_analyzed = TRUE]

\* the chat input handler: the user turn, appended before the send
ChatUser(s, prompt) == [s EXCEPT !.messages = Append(@, Turn("user", prompt))]

\* faulty variant: the response is put in front of the history
ChatAssistantFirst(s, response) ==
    [s EXCEPT !.messages = << Turn("assistant", response) >> \o @]

\* the chat input handler: the assistant turn, appended after the send
ChatAssistant(s, response) ==
    [s EXCEPT !.messages = Append(@, Turn("assistant", response))]

\* "if st.session_state.messages: pdf_buffer = generate_pdf_report(...)":
\* the session as the call leaves it, and the report
PageBottom(s, env) ==
    IF s.messages # << >>
    THEN LET g == generate_pdf_report(s.messages, s.current_image, env, env.strict)
         IN  [s |-> [s EXCEPT !.messages = g.messages, !.current_image = g.current_image],
              pdf |-> [kind |-> g.kind, story |-> g.story]]
    ELSE [s |-> s, pdf |-> NoReport]

\* the record of an interaction
\* the record of an interaction: replaced is the handle a Clear found
Last(op, raised, sent, response, ret, prompt, replaced) ==
    [op |-> op, raised |-> raised, sent |-> sent, response |-> response,
     ret |-> ret, prompt |-> prompt, replaced |-> replaced]

\* whether model.start_chat succeeds, where the script calls it (called) and
\* the service has handles left to give; nothing is drawn where it is not called
Starts(called) == IF called /\ nextHandle < MaxHandles THEN BOOLEAN ELSE {FALSE}

\* what prepare_image and resize_image_for_pdf make of the images under run
Outcome(run, images) ==
    [i \in images \ {NoImage} |->
        << prepare_image(i, run.ulpW, run.ulpH, run.strict),
           resize_image_for_pdf(i, run, run.strict) >>]

\* The roundings and the Pillow release of one script run working on images.
\* One draw stands for all that compute the same: a rounding (a release) is
\* drawn only where it changes an outcome.
Runs(images) ==
    { run \in [ulpW : {0, 1}, ulpH : {0, 1}, up : BOOLEAN, strict : BOOLEAN] :
        /\ \/ run = [run EXCEPT !.ulpW = 0, !.ulpH = 0, !.up = FALSE]
           \/ Outcome(run, images)
                # Outcome([run EXCEPT !.ulpW = 0, !.ulpH = 0, !.up = FALSE], images)
        /\ \/ ~run.strict
           \/ Outcome(run, images) # Outcome([run EXCEPT !.strict = FALSE], images) }

\* the env of a script run
Env(run, remote, s1, s2) ==
    [ulpW |-> run.ulpW, ulpH |-> run.ulpH, up |-> run.up, strict |-> run.strict,
     remote |-> remote, s1 |-> s1, s2 |-> s2]

\* a script run that sends nothing
NoRemote == [kind |-> "error", val |-> ""]

Store(s) ==
    /\ chat' = s.chat
    /\ messages' = s.messages
    /\ image_analyzed' = s.image_analyzed
    /\ current_image' = s.current_image

TypeOK ==
    /\ chat \in 0..MaxHandles
    /\ nextHandle \in 0..MaxHandles
    /\ image_analyzed \in BOOLEAN
    /\ current_image \in Uploads \cup {NoImage}
    /\ uploaded_file \in Uploads \cup {NoImage}
    /\ Len(messages) <= MaxTurns + 1
    /\ \A i \in 1..Len(messages) : messages[i].role \in {"user", "assistant"}

\* ------------------------------------------------------------------ actions
NoPrep == [kind |-> "none", exc |-> "", image |-> NoImage]

\* the session after the first script run of a browser session: the
\* session_state defaults, and chat from the first start_chat
Init ==
    /\ \E started \in BOOLEAN :
          /\ chat = start_chat(0, started)
          /\ nextHandle = IF started THEN 1 ELSE 0
    /\ messages = << >>
    /\ image_analyzed = FALSE
    /\ current_image = NoImage
    /\ uploaded_file = NoImage
    /\ pdf = NoReport
    /\ last = [op |-> "init", raised |-> FALSE, sent |-> FALSE, response |-> "",
               ret |-> "", prompt |-> "", replaced |-> None]
    /\ calls = 0
    /\ prepArg = NoImage
    /\ prepRet = NoPrep

\* the user picks another file in the uploader, or removes the file
Upload ==
    \E img \in Uploads \cup {NoImage}, run \in Runs({current_image}),
       s1 \in Starts(chat = None) :
        /\ img # uploaded_file
        /\ LET env == Env(run, NoRemote, s1, FALSE)
               t == InitChat(Session, nextHandle, env.s1)
               b == PageBottom(t.s, env)
           IN  /\ Store(b.s)
               /\ nextHandle' = t.next
               /\ pdf' = b.pdf
        /\ uploaded_file' = img
        /\ last' = Last("upload", FALSE, FALSE, "", "", "", None)
        /\ UNCHANGED << calls, prepArg, prepRet >>

\* the user clicks Clear Chat History: the handler, st.rerun(), the rerun
Clear ==
    \E run \in Runs({current_image}), s1 \in Starts(TRUE) :
      \E s2 \in (IF s1 THEN {FALSE} ELSE Starts(TRUE)) :
        /\ LET env == Env(run, NoRemote, s1, s2)
               c == ClearHandler(Session, nextHandle, env.s1)
               t == InitChat(c.s, c.next, env.s2)
               b == PageBottom(t.s, env)
           IN  /\ Store(b.s)
               /\ nextHandle' = t.next
               /\ pdf' = b.pdf
        /\ calls' = 0
        /\ last' = Last("clear", FALSE, FALSE, "", "", "", chat)
        /\ UNCHANGED << uploaded_file, prepArg, prepRet >>

\* the user clicks Analyze Invoice/Estimate: the handler, st.rerun(), the
\* rerun.  An exception leaving analyze_image would end the script run there.
Analyze ==
    \E run \in Runs({uploaded_file}), remote \in Remotes, s1 \in Starts(chat = None) :
      \E s2 \in Starts(chat = None /\ ~s1) :
        /\ AnalyzeButtonShown(uploaded_file, image_analyzed)
        /\ Len(messages) < MaxTurns
        /\ LET env == Env(run, remote, s1, s2)
               t == InitChat(Session, nextHandle, env.s1)
               r == analyze_image(uploaded_file, t.s.chat, env)
               sent == AnalysisSent(uploaded_file, t.s.chat, env)
               a == AnalyzeStore(t.s, uploaded_file, r.val)
               t2 == InitChat(a, t.next, env.s2)
               b == PageBottom(t2.s, env)
           IN  IF r.kind = "raise"
               THEN /\ Store([t.s EXCEPT !.current_image = uploaded_file])
                    /\ nextHandle' = t.next
                    /\ pdf' = NoReport
                    /\ last' = Last("analyze", TRUE, sent, "", "", "", None)
               ELSE /\ Store(b.s)
                    /\ nextHandle' = t2.next
                    /\ pdf' = b.pdf
                    /\ last' = Last("analyze", FALSE, sent,
                                    IF sent THEN env.remote.val ELSE "", r.val, "", None)
        /\ calls' = calls + 1
        /\ UNCHANGED << uploaded_file, prepArg, prepRet >>

\* the user submits a question in the chat input; the script runs on to the
\* page bottom.  An exception leaving send_message would end the run there.
FollowUp ==
    \E prompt \in Prompts, run \in Runs({current_image}), remote \in Remotes,
       s1 \in Starts(chat = None) :
        /\ image_analyzed
        /\ Len(messages) + 2 <= MaxTurns
        /\ LET env == Env(run, remote, s1, FALSE)
               t == InitChat(Session, nextHandle, env.s1)
               u == ChatUser(t.s, prompt)
               r == send_message(u.chat, prompt, env)
               sent == chat_send_message(u.chat, env.remote).kind = "return"
               a == ChatAssistant(u, r.val)
               b == PageBottom(a, env)
           IN  /\ nextHandle' = t.next
               /\ IF r.kind = "raise"
                  THEN /\ Store(u)
                       /\ pdf' = NoReport
                       /\ last' = Last("followup", TRUE, sent, "", "", prompt, None)
                  ELSE /\ Store(b.s)
                       /\ pdf' = b.pdf
                       /\ last' = Last("followup", FALSE, sent,
                                       IF sent THEN env.remote.val ELSE "", r.val, prompt, None)
        /\ UNCHANGED << uploaded_file, calls, prepArg, prepRet >>

Next == Upload \/ Clear \/ Analyze \/ FollowUp

Spec == Init /\ [][Next]_vars

\* ------------------------------------------------- prepare_image on its own
Modes == { "RGB", "RGBA", "L" }

PrepDims == (1..MaxSmall)
            \cup { max_size + d : d \in (0 - MaxDelta)..MaxDelta }
            \cup { k * Stride : k \in 1..MaxK }
            \cup { 2 * max_size }

InitPrep ==
    /\ chat = None
    /\ nextHandle = 0
    /\ messages = << >>
    /\ image_analyzed = FALSE
    /\ current_image = NoImage
    /\ uploaded_file = NoImage
    /\ pdf = NoReport
    /\ last = [op |-> "init", raised |-> FALSE, sent |-> FALSE, response |-> "",
               ret |-> "", prompt |-> "", replaced |-> None]
    /\ calls = 0
    /\ prepArg \in { Img(m, w, h) : m \in Modes, w \in PrepDims, h \in PrepDims }
    /\ prepRet = NoPrep

PrepareImage ==
    \E ulpW \in {0, 1}, ulpH \in {0, 1}, strict \in BOOLEAN :
        /\ prepRet.kind = "none"
        /\ prepRet' = prepare_image(prepArg, ulpW, ulpH, strict)
        /\ UNCHANGED << chat, messages, image_analyzed, current_image, uploaded_file,
                        nextHandle, pdf, last, calls, prepArg >>

NextPrep == PrepareImage

SpecPrep == InitPrep /\ [][NextPrep]_vars

\* ------------------------------------------------------------------ claims
\* the last interaction was an analysis whose remote send failed
AnalysisFailed == last.op = "analyze" /\ ~last.sent

\* C1: image_analyzed turns true only in an analysis step whose remote send
\* succeeded; so after failed analyses only, it is still false.
C1_FlagOnlyBySuccess ==
    [][ (~image_analyzed /\ image_analyzed') => (last'.op = "analyze" /\ last'.sent) ]_vars

\* C2: right after Clear (start_chat having given a handle) the history is
\* empty, image_analyzed is false, current_image is none and chat is a newly
\* created handle, not the one Clear found.
C2_ClearResetsAll ==
    (last.op = "clear" /\ chat # None) =>
        /\ messages = << >>
        /\ ~image_analyzed
        /\ current_image = NoImage
        /\ chat = nextHandle
        /\ chat # last.replaced

\* C3: a successful follow-up on an analyzed session appends exactly the user
\* turn with the submitted text and then the assistant turn with the
\* response, and leaves every earlier turn where and as it was.
C3_FollowUpAppendsTwo ==
    [][ (image_analyzed /\ last'.op = "followup" /\ last'.sent) =>
            /\ Len(messages') = Len(messages) + 2
            /\ messages'[Len(messages) + 1] = [role |-> "user", content |-> last'.prompt]
            /\ messages'[Len(messages) + 2] = [role |-> "assistant", content |-> last'.response]
            /\ SubSeq(messages', 1, Len(messages)) = messages ]_vars

\* two successful follow-ups in a row on an analyzed session
C3_Witness ==
    /\ last.op = "followup" /\ last.sent
    /\ Len(messages) = 5
    /\ messages[3].content \in ResponseTexts

\* C4: from the Empty session a successful analysis leaves exactly one turn,
\* the assistant's with the response text, image_analyzed true and
\* current_image the uploaded image as uploaded; a follow-up then makes the
\* turns 3 and a Clear makes them 0.
C4_AnalysisScenario ==
    [][ /\ (messages = << >> /\ ~image_analyzed /\ last'.op = "analyze" /\ last'.sent) =>
              /\ messages' = << [role |-> "assistant", content |-> last'.response] >>
              /\ image_analyzed'
              /\ current_image' = uploaded_file
        /\ (Len(messages) = 1 /\ image_analyzed /\ last'.op = "followup") =>
              Len(messages') = 3
        /\ (last'.op = "clear") => Len(messages') = 0 ]_vars

\* a successful analysis of an image that prepare_image converts and
\* downscales, then a follow-up
C4_Witness ==
    /\ last.op = "followup"
    /\ Len(messages) = 3
    /\ messages[1].content \in ResponseTexts
    /\ calls = 1
    /\ prepare_image(current_image, 0, 0, FALSE).image # current_image
    /\ current_image = uploaded_file

\* C5: a failed analysis that finds current_image none leaves it none.
C5_FailedAnalysisKeepsNoImage ==
    [][ (current_image = NoImage /\ last'.op = "analyze" /\ ~last'.sent) =>
            current_image' = NoImage ]_vars

\* C6: after a failed analysis the session is Empty again (no turns, not
\* analyzed) and what analyze_image gave back is no model response.
C6_FailedAnalysisLeavesEmpty ==
    AnalysisFailed =>
        /\ messages = << >>
        /\ ~image_analyzed
        /\ last.ret \notin ResponseTexts

\* C7: analyze_image and send_message never raise: whatever the remote send
\* does, and also without a handle, the call returns a text; and after a
\* follow-up, whatever its outcome, image_analyzed is true.
C7_NeverRaises ==
    /\ last.op \in {"analyze", "followup"} =>
          /\ ~last.raised
          /\ last.ret \in STRING
          /\ last.ret # ""
          /\ last.sent => last.ret = last.response
    /\ last.op = "followup" => image_analyzed

\* a follow-up sent without a handle: start_chat had returned None
C7_Witness ==
    /\ last.op = "followup"
    /\ chat = None
    /\ ~last.sent
    /\ messages[Len(messages)].content
         = "Error sending message: 'NoneType' object has no attribute 'send_message'"
    /\ messages[1].content \notin ResponseTexts

C9_SingleAnalysis ==
    [][ /\ (image_analyzed /\ last'.op # "clear") =>
              /\ calls' = calls
              /\ current_image' = current_image
        /\ calls' <= 1 ]_vars

\* after the analysis the user uploaded another image and asked a question
C9_Witness ==
    /\ image_analyzed
    /\ calls = 1
    /\ last.op = "followup"
    /\ uploaded_file # NoImage
    /\ uploaded_file # current_image

\* the story holds, after the title (and the image when there is one), one
\* section per turn in session order: the role as heading, then the content
StoryMatches ==
    LET story == pdf.story
        n == Len(messages)
        off == IF current_image # NoImage THEN 4 ELSE 2
    IN  /\ Len(story) = off + 3 * n
        /\ Cardinality({ j \in 1..Len(story) : story[j].style = "SectionHeader" }) = n
        /\ \A i \in 1..n :
              /\ story[off + 3 * i - 2].kind = "Paragraph"
              /\ story[off + 3 * i - 2].style = "SectionHeader"
              /\ story[off + 3 * i - 2].text
                   = (IF messages[i].role = "user" THEN "User" ELSE "Assistant")
              /\ story[off + 3 * i - 1].kind = "Paragraph"
              /\ story[off + 3 * i - 1].text = messages[i].content
        /\ current_image # NoImage =>
              /\ story[3].kind = "Image"
              /\ \A j \in 1..Len(story) : story[j].kind = "Image" => j = 3
        /\ current_image = NoImage =>
              \A j \in 1..Len(story) : story[j].kind # "Image"

\* C10: a report that generate_pdf_report returned has one block per turn of
\* the session, in order, labelled with the turn's role and holding its
\* content, after the image when there is one; and a script run that does
\* nothing but build the report leaves messages, image_analyzed and
\* current_image as they were.
C10_ExportFidelity ==
    [][ /\ pdf'.kind = "return" => StoryMatches'
        /\ last'.op = "upload" =>
              /\ messages' = messages
              /\ image_analyzed' = image_analyzed
              /\ current_image' = current_image ]_vars

\* a report of three turns with the image, built by a run that did nothing else
C10_Witness ==
    /\ pdf.kind = "return"
    /\ last.op = "upload"
    /\ Len(messages) = 3
    /\ current_image # NoImage
    /\ messages[2].role = "user"

\* C11: the history is non-empty exactly when image_analyzed is true; a
\* non-empty history has odd length, starts with an assistant turn and
\* alternates assistant, user, assistant, ...: no user turn in a session not
\* analyzed, no two neighbouring turns of one role.
C11_HistoryShape ==
    /\ (messages # << >>) <=> image_analyzed
    /\ messages # << >> => Len(messages) % 2 = 1
    /\ \A i \in 1..Len(messages) :
          messages[i].role = (IF i % 2 = 1 THEN "assistant" ELSE "user")
    /\ \A i \in 1..(Len(messages) - 1) : messages[i].role # messages[i + 1].role
    /\ ~image_analyzed => \A i \in 1..Len(messages) : messages[i].role # "user"

\* a session cleared once and analyzed again, two follow-ups later
C11_Witness ==
    /\ image_analyzed
    /\ Len(messages) = 5
    /\ messages[4].role = "user"
    /\ last.op = "followup"
    /\ nextHandle >= 2

====
